---- MODULE Spec2Model ----
(***************************************************************************)
(* Matching and session coordination of the toktok signalling server       *)
(* (server/src/server.ts): the waiting queue, the pairing of a requester   *)
(* with the head of the queue, the three suspending calls to the media     *)
(* collaborator, the registry of active sessions and the relaying of       *)
(* events between the members of a session.                                *)
(***************************************************************************)
EXTENDS Integers, Sequences, FiniteSets, Bags, TLC

\* ------------------------------------------------------------------ bounds
\* the number of User objects the server holds at a time (in the queue, in
\* suspended handleMatching calls and in sessions)
MaxUsers == 4

Conns == {"a", "b", "c"}
SessionIds == {"s1"}
Tokens == {"t1", "t2"}
Texts == {"hi"}
Null == "null"

VARIABLES
  connected,       \* socket ids whose "connection" callback ran and that are still open
  closed,          \* socket ids whose "disconnect" handler has run
  waitingUsers,    \* the array waitingUsers
  activeSessions,  \* the array activeSessions
  matching,        \* the bag of handleMatching calls suspended on an await
  emitted,         \* the emit calls made by the last handler, in order
  last             \* the last handler that ran

vars == <<connected, closed, waitingUsers, activeSessions, matching, emitted, last>>

\* ------------------------------------------------------------ data shapes
NewUser(socketId) ==
  [socketId |-> socketId, sessionId |-> Null, connectionId |-> Null]

Emit(to, event, payload) == [to |-> to, event |-> event, payload |-> payload]

ErrorMessage == "matching failed"

\* the handler that ran and the socket it ran for; index is the position
\* findIndex gave a cancelMatch (0: none), 0 for the other handlers
Handler(op, id) == [op |-> op, id |-> id, index |-> 0]

\* ----------------------------------------------------- sequence helpers
RemoveAt(s, i) == SubSeq(s, 1, i - 1) \o SubSeq(s, i + 1, Len(s))

\* session.users.some((user) => user.socketId === socketId)
HasUser(session, socketId) ==
  \E i \in 1..Len(session.users) : session.users[i].socketId = socketId

\* activeSessions.findIndex(...): the first index whose session has the
\* socket id among its users, 0 when there is none (-1 in the source)
RECURSIVE SessionIndexFrom(_, _, _)
SessionIndexFrom(sessions, socketId, i) ==
  IF i > Len(sessions) THEN 0
  ELSE IF HasUser(sessions[i], socketId) THEN i
  ELSE SessionIndexFrom(sessions, socketId, i + 1)

SessionIndex(sessions, socketId) == SessionIndexFrom(sessions, socketId, 1)

\* a findSession that does not look at the users: the first session there is
findSession_Any(sessions, socketId) ==
  IF Len(sessions) = 0 THEN <<>> ELSE <<sessions[1]>>

\* findSession: the first session having the socket id; the result is <<>>
\* for undefined and <<session>> otherwise
findSession(sessions, socketId) ==
  LET i == SessionIndex(sessions, socketId)
  IN IF i = 0 THEN <<>> ELSE <<sessions[i]>>

\* session.users.find((user) => user.socketId !== socketId): the index of
\* the first user with another socket id, 0 when there is none
RECURSIVE OtherUserFrom(_, _, _)
OtherUserFrom(users, socketId, i) ==
  IF i > Len(users) THEN 0
  ELSE IF users[i].socketId # socketId THEN i
  ELSE OtherUserFrom(users, socketId, i + 1)

\* getOtherUserInSession: <<>> for undefined and <<user>> otherwise
getOtherUserInSession(session, socketId) ==
  LET i == OtherUserFrom(session.users, socketId, 1)
  IN IF i = 0 THEN <<>> ELSE <<session.users[i]>>

\* waitingUsers.findIndex((user) => user.socketId === socketId)
RECURSIVE WaitingIndexFrom(_, _, _)
WaitingIndexFrom(queue, socketId, i) ==
  IF i > Len(queue) THEN 0
  ELSE IF queue[i].socketId = socketId THEN i
  ELSE WaitingIndexFrom(queue, socketId, i + 1)

\* a removeFromWaiting without the test of the index: splice(-1, 1) takes
\* the last entry out when the socket id is not in the queue
removeFromWaiting_NoCheck(queue, socketId) ==
  LET index == WaitingIndexFrom(queue, socketId, 1)
  IN IF index # 0 THEN RemoveAt(queue, index)
     ELSE SubSeq(queue, 1, Len(queue) - 1)

\* removeFromWaiting: splice out the first entry of the socket id, if any
removeFromWaiting(queue, socketId) ==
  LET index == WaitingIndexFrom(queue, socketId, 1)
  IN IF index # 0 THEN RemoveAt(queue, index) ELSE queue

\* removeFromSession, the registry part: splice out the first session of
\* the socket id, if any
removeFromSession(sessions, socketId) ==
  LET sessionIndex == SessionIndex(sessions, socketId)
  IN IF sessionIndex # 0 THEN RemoveAt(sessions, sessionIndex) ELSE sessions

\* removeFromSession, the notification part: peerLeft to the other user of
\* that session, when there is one
removeFromSessionEmits(sessions, socketId) ==
  LET sessionIndex == SessionIndex(sessions, socketId)
  IN IF sessionIndex = 0 THEN <<>>
     ELSE LET otherUser == getOtherUserInSession(sessions[sessionIndex], socketId)
          IN IF otherUser # <<>>
             THEN <<Emit(otherUser[1].socketId, "peerLeft", Null)>>
             ELSE <<>>

\* ------------------------------------------------------------------- Init
Init ==
  /\ connected = {}
  /\ closed = {}
  /\ waitingUsers = <<>>
  /\ activeSessions = <<>>
  /\ matching = EmptyBag
  /\ emitted = <<>>
  /\ last = Handler("listen", Null)

\* --------------------------------------------------------------- handlers
\* io.on("connection"): a new socket with a fresh id
Connection(c) ==
  /\ c \notin connected
  /\ c \notin closed
  /\ connected' = connected \cup {c}
  /\ emitted' = <<>>
  /\ last' = Handler("connection", c)
  /\ UNCHANGED <<closed, waitingUsers, activeSessions, matching>>

\* a requestMatch that pairs only once two users are waiting
QueueNonEmpty_Late == Len(waitingUsers) > 1

\* the test waitingUsers.length > 0 of requestMatch
QueueNonEmpty == Len(waitingUsers) > 0

\* the state of a handleMatching call suspended at its first await
StartMatching(user1, user2) ==
  [user1 |-> user1, user2 |-> user2, pc |-> "createSession",
   sessionId |-> Null, token1 |-> Null]

\* the User objects alive in the three structures
UsersHeld ==
  Len(waitingUsers) + 2 * BagCardinality(matching) + 2 * Len(activeSessions)

\* a requestMatch that reads waitingUsers[0] and leaves it in the queue
RequestMatch_NoShift(c) ==
  /\ c \in connected
  /\ UsersHeld < MaxUsers
  /\ LET user == NewUser(c)
     IN IF QueueNonEmpty
        THEN /\ matching' = matching (+) SetToBag({StartMatching(user, waitingUsers[1])})
             /\ emitted' = <<>>
             /\ UNCHANGED waitingUsers
        ELSE /\ waitingUsers' = Append(waitingUsers, user)
             /\ emitted' = <<Emit(c, "waiting", Null)>>
             /\ UNCHANGED matching
  /\ last' = Handler("requestMatch", c)
  /\ UNCHANGED <<connected, closed, activeSessions>>

\* a requestMatch whose waiting event is emitted outside the else branch
RequestMatch_AlwaysWaiting(c) ==
  /\ c \in connected
  /\ UsersHeld < MaxUsers
  /\ LET user == NewUser(c)
     IN IF QueueNonEmpty
        THEN LET matchedUser == Head(waitingUsers)
             IN /\ waitingUsers' = Tail(waitingUsers)
                /\ matching' = matching (+) SetToBag({StartMatching(user, matchedUser)})
        ELSE /\ waitingUsers' = Append(waitingUsers, user)
             /\ UNCHANGED matching
  /\ emitted' = <<Emit(c, "waiting", Null)>>
  /\ last' = Handler("requestMatch", c)
  /\ UNCHANGED <<connected, closed, activeSessions>>

\* socket.on("requestMatch")
RequestMatch(c) ==
  /\ c \in connected
  /\ UsersHeld < MaxUsers
  /\ LET user == NewUser(c)
     IN IF QueueNonEmpty
        THEN /\ LET matchedUser == Head(waitingUsers)
                IN /\ waitingUsers' = Tail(waitingUsers)
                   /\ matching' = matching (+) SetToBag({StartMatching(user, matchedUser)})
             /\ emitted' = <<>>
        ELSE /\ waitingUsers' = Append(waitingUsers, user)
             /\ emitted' = <<Emit(c, "waiting", Null)>>
             /\ UNCHANGED matching
  /\ last' = Handler("requestMatch", c)
  /\ UNCHANGED <<connected, closed, activeSessions>>

\* a cancelMatch that cleans up as disconnect does
CancelMatch_AlsoLeaves(c) ==
  /\ c \in connected
  /\ waitingUsers' = removeFromWaiting(waitingUsers, c)
  /\ activeSessions' = removeFromSession(activeSessions, c)
  /\ emitted' = removeFromSessionEmits(activeSessions, c)
  /\ last' = [Handler("cancelMatch", c) EXCEPT
                !.index = WaitingIndexFrom(waitingUsers, c, 1)]
  /\ UNCHANGED <<connected, closed, matching>>

\* socket.on("cancelMatch")
CancelMatch(c) ==
  /\ c \in connected
  /\ waitingUsers' = removeFromWaiting(waitingUsers, c)
  /\ emitted' = <<>>
  /\ last' = [Handler("cancelMatch", c) EXCEPT
                !.index = WaitingIndexFrom(waitingUsers, c, 1)]
  /\ UNCHANGED <<connected, closed, activeSessions, matching>>

\* socket.on("leaveSession")
LeaveSession(c) ==
  /\ c \in connected
  /\ activeSessions' = removeFromSession(activeSessions, c)
  /\ emitted' = removeFromSessionEmits(activeSessions, c)
  /\ last' = Handler("leaveSession", c)
  /\ UNCHANGED <<connected, closed, waitingUsers, matching>>

\* socket.on("disconnect")
Disconnect(c) ==
  /\ c \in connected
  /\ connected' = connected \ {c}
  /\ closed' = closed \cup {c}
  /\ waitingUsers' = removeFromWaiting(waitingUsers, c)
  /\ activeSessions' = removeFromSession(activeSessions, c)
  /\ emitted' = removeFromSessionEmits(activeSessions, c)
  /\ last' = Handler("disconnect", c)
  /\ UNCHANGED matching

\* relay handlers that emit the event two times
RelayEmits_Twice(c, event, payload) ==
  LET session == findSession(activeSessions, c)
  IN IF session # <<>>
     THEN LET otherUser == getOtherUserInSession(session[1], c)
          IN IF otherUser # <<>>
             THEN <<Emit(otherUser[1].socketId, event, payload),
                    Emit(otherUser[1].socketId, event, payload)>>
             ELSE <<>>
     ELSE <<>>

\* the relay handlers: findSession, getOtherUserInSession, emit to the other
RelayEmits(c, event, payload) ==
  LET session == findSession(activeSessions, c)
  IN IF session # <<>>
     THEN LET otherUser == getOtherUserInSession(session[1], c)
          IN IF otherUser # <<>>
             THEN <<Emit(otherUser[1].socketId, event, payload)>>
             ELSE <<>>
     ELSE <<>>

\* socket.on("chat-message")
ChatMessage(c, text) ==
  /\ c \in connected
  /\ emitted' = RelayEmits(c, "chat-message", [text |-> text])
  /\ last' = Handler("chat-message", c)
  /\ UNCHANGED <<connected, closed, waitingUsers, activeSessions, matching>>

\* socket.on("typing")
Typing(c, isTyping) ==
  /\ c \in connected
  /\ emitted' = RelayEmits(c, "typing", isTyping)
  /\ last' = Handler("typing", c)
  /\ UNCHANGED <<connected, closed, waitingUsers, activeSessions, matching>>

\* socket.on("screen-share-started")
ScreenShareStarted(c) ==
  /\ c \in connected
  /\ emitted' = RelayEmits(c, "peer-screen-share-started", Null)
  /\ last' = Handler("screen-share-started", c)
  /\ UNCHANGED <<connected, closed, waitingUsers, activeSessions, matching>>

\* socket.on("screen-share-stopped")
ScreenShareStopped(c) ==
  /\ c \in connected
  /\ emitted' = RelayEmits(c, "peer-screen-share-stopped", Null)
  /\ last' = Handler("screen-share-stopped", c)
  /\ UNCHANGED <<connected, closed, waitingUsers, activeSessions, matching>>

\* ------------------------------------------- handleMatching, after an await
\* a catch block that tells the requester only
MatchingError_User1Only(m) ==
  <<Emit(m.user1.socketId, "error", [message |-> ErrorMessage])>>

\* the catch block of handleMatching: an error event to user1, then to user2
MatchingError(m) ==
  <<Emit(m.user1.socketId, "error", [message |-> ErrorMessage]),
    Emit(m.user2.socketId, "error", [message |-> ErrorMessage])>>

\* a suspended call leaves the bag, or moves on to its next await
Resume(m, n) == (matching (-) SetToBag({m})) (+) SetToBag({n})

Finish(m) == matching (-) SetToBag({m})

\* createOpenViduSession resolves: the id of the created room, or the id of
\* the existing room on a 409 answer
CreateSessionReturns(m, sessionId) ==
  /\ BagIn(m, matching)
  /\ m.pc = "createSession"
  /\ matching' = Resume(m, [m EXCEPT !.pc = "token1", !.sessionId = sessionId])
  /\ emitted' = <<>>
  /\ last' = Handler("await", m.user1.socketId)
  /\ UNCHANGED <<connected, closed, waitingUsers, activeSessions>>

\* createOpenViduSession rejects: the catch block runs
CreateSessionThrows(m) ==
  /\ BagIn(m, matching)
  /\ m.pc = "createSession"
  /\ matching' = Finish(m)
  /\ emitted' = MatchingError(m)
  /\ last' = Handler("catch", m.user1.socketId)
  /\ UNCHANGED <<connected, closed, waitingUsers, activeSessions>>

\* the first createOpenViduToken resolves
Token1Returns(m, token) ==
  /\ BagIn(m, matching)
  /\ m.pc = "token1"
  /\ matching' = Resume(m, [m EXCEPT !.pc = "token2", !.token1 = token])
  /\ emitted' = <<>>
  /\ last' = Handler("await", m.user1.socketId)
  /\ UNCHANGED <<connected, closed, waitingUsers, activeSessions>>

\* the session object built once both tokens are there
NewSession(m) ==
  [sessionId |-> m.sessionId,
   users |-> <<[m.user1 EXCEPT !.sessionId = m.sessionId],
               [m.user2 EXCEPT !.sessionId = m.sessionId]>>]

\* matched events that carry the tokens the wrong way round
MatchedEmits_Swapped(m, token2) ==
  <<Emit(m.user1.socketId, "matched", [token |-> token2, sessionId |-> m.sessionId]),
    Emit(m.user2.socketId, "matched", [token |-> m.token1, sessionId |-> m.sessionId])>>

\* matched events that carry what some suspended call holds, not what this
\* call obtained
MatchedEmits_OtherAttempt(m, token2) ==
  LET others == {o \in BagToSet(matching) :
                   o.token1 # m.token1 \/ o.sessionId # m.sessionId}
      other == IF others = {} THEN m ELSE CHOOSE o \in others : TRUE
  IN <<Emit(m.user1.socketId, "matched", [token |-> other.token1, sessionId |-> other.sessionId]),
       Emit(m.user2.socketId, "matched", [token |-> token2, sessionId |-> other.sessionId])>>

\* a success path that tells the requester only
MatchedEmits_User1Only(m, token2) ==
  <<Emit(m.user1.socketId, "matched", [token |-> m.token1, sessionId |-> m.sessionId])>>

\* the two matched events, each with the token of its user
MatchedEmits(m, token2) ==
  <<Emit(m.user1.socketId, "matched", [token |-> m.token1, sessionId |-> m.sessionId]),
    Emit(m.user2.socketId, "matched", [token |-> token2, sessionId |-> m.sessionId])>>

\* the second createOpenViduToken resolves: the session is registered and
\* both users are told
Token2Returns(m, token) ==
  /\ BagIn(m, matching)
  /\ m.pc = "token2"
  /\ activeSessions' = Append(activeSessions, NewSession(m))
  /\ matching' = Finish(m)
  /\ emitted' = MatchedEmits(m, token)
  /\ last' = Handler("matched", m.user1.socketId)
  /\ UNCHANGED <<connected, closed, waitingUsers>>

\* either createOpenViduToken rejects: the catch block runs
TokenThrows(m) ==
  /\ BagIn(m, matching)
  /\ m.pc \in {"token1", "token2"}
  /\ matching' = Finish(m)
  /\ emitted' = MatchingError(m)
  /\ last' = Handler("catch", m.user1.socketId)
  /\ UNCHANGED <<connected, closed, waitingUsers, activeSessions>>

\* ------------------------------------------------------------------- Next
Next ==
  \/ \E c \in Conns : Connection(c)
  \/ \E c \in Conns : RequestMatch(c)
  \/ \E c \in Conns : CancelMatch(c)
  \/ \E c \in Conns : LeaveSession(c)
  \/ \E c \in Conns : Disconnect(c)
  \/ \E c \in Conns, text \in Texts : ChatMessage(c, text)
  \/ \E c \in Conns, isTyping \in BOOLEAN : Typing(c, isTyping)
  \/ \E c \in Conns : ScreenShareStarted(c)
  \/ \E c \in Conns : ScreenShareStopped(c)
  \/ \E m \in BagToSet(matching), sessionId \in SessionIds : CreateSessionReturns(m, sessionId)
  \/ \E m \in BagToSet(matching) : CreateSessionThrows(m)
  \/ \E m \in BagToSet(matching), token \in Tokens : Token1Returns(m, token)
  \/ \E m \in BagToSet(matching), token \in Tokens : Token2Returns(m, token)
  \/ \E m \in BagToSet(matching) : TokenThrows(m)

Spec == Init /\ [][Next]_vars

\* the collaborator answers the call a match of user1 and user2 is
\* suspended on (it resolves or rejects)
Answer(user1, user2) ==
  \E m \in BagToSet(matching) :
    /\ m.user1.socketId = user1
    /\ m.user2.socketId = user2
    /\ \/ \E sessionId \in SessionIds : CreateSessionReturns(m, sessionId)
       \/ CreateSessionThrows(m)
       \/ \E token \in Tokens : Token1Returns(m, token)
       \/ \E token \in Tokens : Token2Returns(m, token)
       \/ TokenThrows(m)

\* every call to the collaborator eventually resolves or rejects
FairSpec ==
  Spec /\ \A user1, user2 \in Conns : WF_vars(Answer(user1, user2))

\* a second room id the collaborator may answer with
MoreSessionIds == {"s2"}

\* the server with a collaborator that does not always answer with the same
\* room id: two suspended calls can hold different ids
WideNext ==
  \/ Next
  \/ \E m \in BagToSet(matching), sessionId \in MoreSessionIds :
       CreateSessionReturns(m, sessionId)

WideSpec == Init /\ [][WideNext]_vars

\* ------------------------------------------------------ state functions
\* c has an entry in the waiting queue
Waiting(queue, c) == \E i \in 1..Len(queue) : queue[i].socketId = c

\* the positions of the sessions c is a member of
SessionsOf(sessions, c) == {i \in 1..Len(sessions) : HasUser(sessions[i], c)}

\* c is a party of a suspended handleMatching call
InFlight(c) ==
  \E m \in BagToSet(matching) : m.user1.socketId = c \/ m.user2.socketId = c

\* ----------------------------------------------------------------- claims
\* C1: no connection is at the same time an entry of the waiting queue and
\* a member of a session in activeSessions.
C1_NotWaitingAndPaired ==
  \A c \in Conns :
    ~(Waiting(waitingUsers, c) /\ SessionsOf(activeSessions, c) # {})

\* C2: each connection is a member of at most one session in activeSessions.
C2_AtMostOneSession ==
  \A c \in Conns : Cardinality(SessionsOf(activeSessions, c)) <= 1

\* C3: every session in activeSessions has exactly two members, and the two
\* are distinct connections.
C3_TwoDistinctMembers ==
  \A i \in 1..Len(activeSessions) :
    /\ Len(activeSessions[i].users) = 2
    /\ activeSessions[i].users[1].socketId # activeSessions[i].users[2].socketId

\* C4: no connection appears in the waiting queue more than once.
C4_NoDuplicateWaiting ==
  \A i, j \in 1..Len(waitingUsers) :
    i # j => waitingUsers[i].socketId # waitingUsers[j].socketId

\* C4 witness: a connection that is waiting sent requestMatch more than
\* once (an earlier request of it is in a suspended match or in a session).
C4_Witness ==
  \E c \in Conns :
    /\ last = Handler("requestMatch", c)
    /\ Waiting(waitingUsers, c)
    /\ (InFlight(c) \/ SessionsOf(activeSessions, c) # {})

\* C5: a requestMatch that finds the queue non-empty starts its match with
\* the head of the queue, the entry that has waited longest, and every other
\* waiter stays in the queue in its place.
C5_PairsWithOldest ==
  [][\A c \in Conns :
       (last' = Handler("requestMatch", c) /\ Len(waitingUsers) > 0)
       => /\ waitingUsers' = SubSeq(waitingUsers, 2, Len(waitingUsers))
          /\ emitted' = <<>>
          /\ \E m \in BagToSet(matching') :
               /\ m.user1.socketId = c
               /\ m.user2 = waitingUsers[1]
               /\ m.pc = "createSession"
               /\ matching' = matching (+) SetToBag({m})]_vars

\* C5 witness: a requestMatch has just started a match with the connection
\* that was waiting.
C5_Witness ==
  \E c, w \in Conns :
    /\ c # w
    /\ last = Handler("requestMatch", c)
    /\ waitingUsers = <<>>
    /\ BagIn(StartMatching(NewUser(c), NewUser(w)), matching)

\* the peers of x: the other members of the sessions x is a member of
Peers(sessions, x) ==
  {y \in Conns \ {x} : \E i \in SessionsOf(sessions, x) : HasUser(sessions[i], y)}

\* the number of events of a kind emitted to a connection
Count(emits, to, event) ==
  Cardinality({k \in 1..Len(emits) : emits[k].to = to /\ emits[k].event = event})

\* C6: after a session member x sends leaveSession or disconnects, no
\* session with x exists any more, and every peer y of x has received
\* exactly one peerLeft and is in no session.
C6_SymmetricTeardown ==
  [][\A x \in Conns :
       (last'.op \in {"leaveSession", "disconnect"} /\ last'.id = x
          /\ SessionsOf(activeSessions, x) # {})
       => /\ SessionsOf(activeSessions', x) = {}
          /\ \A y \in Peers(activeSessions, x) :
               /\ Count(emitted', y, "peerLeft") = 1
               /\ SessionsOf(activeSessions', y) = {}]_vars

\* the events the relay handlers emit
RelayEvents ==
  {"chat-message", "typing", "peer-screen-share-started", "peer-screen-share-stopped"}

RelayOps ==
  {"chat-message", "typing", "screen-share-started", "screen-share-stopped"}

\* C7: an event sent by x while x is in a session with y is emitted to y,
\* once, and to no other connection.
C7_RoutingIsolation ==
  [][\A x \in Conns :
       (last'.op \in RelayOps /\ last'.id = x)
       => \A y \in Peers(activeSessions, x) :
            /\ Len(emitted') = 1
            /\ emitted'[1].to = y
            /\ emitted'[1].event \in RelayEvents]_vars

\* C8: when the room allocation or a credential issuance of a match fails,
\* that match ends, both of its users are sent an error event, and neither
\* the waiting queue nor activeSessions changes.
C8_FailurePath ==
  [][last'.op = "catch"
     => \E m \in BagToSet(matching) :
          /\ matching' = matching (-) SetToBag({m})
          /\ Len(emitted') = 2
          /\ emitted'[1] = Emit(m.user1.socketId, "error", [message |-> ErrorMessage])
          /\ emitted'[2] = Emit(m.user2.socketId, "error", [message |-> ErrorMessage])
          /\ activeSessions' = activeSessions
          /\ waitingUsers' = waitingUsers]_vars

\* C8 witness: a match of two different connections has just failed, both
\* are out of the queue and in no session.
C8_Witness ==
  /\ last.op = "catch"
  /\ Len(emitted) = 2
  /\ emitted[1].to # emitted[2].to
  /\ \A k \in 1..2 :
       /\ emitted[k].event = "error"
       /\ ~Waiting(waitingUsers, emitted[k].to)
       /\ SessionsOf(activeSessions, emitted[k].to) = {}

\* C9: once the disconnect of c has been processed, c is in neither the
\* waiting queue nor any session, then and ever after.
C9_DisconnectedStaysOut ==
  \A c \in closed :
    ~Waiting(waitingUsers, c) /\ SessionsOf(activeSessions, c) = {}

\* C10: a match whose user disconnected while it was suspended registers no
\* session, and no connection is left in a session whose other member has
\* disconnected.
C10_DisconnectDoomsMatch ==
  [][last'.op = "matched"
     => LET session == activeSessions'[Len(activeSessions')]
        IN \A k \in 1..Len(session.users) :
             session.users[k].socketId \notin closed']_vars

\* the suspended handleMatching calls c is a party of, counted with their
\* multiplicity in the bag
Attempts(c) ==
  LET S == {m \in BagToSet(matching) : m.user1.socketId = c \/ m.user2.socketId = c}
      RECURSIVE Sum(_)
      Sum(T) == IF T = {} THEN 0
                ELSE LET m == CHOOSE x \in T : TRUE
                     IN CopiesIn(m, matching) + Sum(T \ {m})
  IN Sum(S)

\* C11: at any time a connection is a party of at most one match attempt in
\* flight, so a dequeued waiter is not dequeued for a second match while
\* the first has not concluded.
C11_OneMatchInFlight ==
  \A c \in Conns : Attempts(c) <= 1

\* C12: cancelMatch by c takes c out of the waiting queue, keeps the other
\* waiters in their order and changes nothing when c is not waiting; a
\* requestMatch that follows the cancel of the only waiter is enqueued and
\* gets waiting.
C12_CancelRemovesWaiter ==
  [][/\ \A c \in Conns :
          (last'.op = "cancelMatch" /\ last'.id = c)
          => /\ ~Waiting(waitingUsers', c)
             /\ waitingUsers' = SelectSeq(waitingUsers, LAMBDA u : u.socketId # c)
             /\ (~Waiting(waitingUsers, c) => waitingUsers' = waitingUsers)
     /\ (last.op = "cancelMatch" /\ last.index # 0 /\ waitingUsers = <<>>
           /\ last'.op = "requestMatch")
        => /\ waitingUsers' = <<NewUser(last'.id)>>
           /\ emitted' = <<Emit(last'.id, "waiting", Null)>>
           /\ matching' = matching]_vars

\* C12 witness: the only waiter has just cancelled and the queue is empty.
C12_Witness ==
  /\ last.op = "cancelMatch"
  /\ last.index = 1
  /\ last.id \in connected
  /\ waitingUsers = <<>>

\* C13: a cancelMatch of a connection whose match is in flight changes
\* neither the waiting queue nor activeSessions nor the match in flight.
C13_CancelInFlightNoEffect ==
  [][\A c \in Conns :
       (last'.op = "cancelMatch" /\ last'.id = c /\ InFlight(c))
       => /\ waitingUsers' = waitingUsers
          /\ activeSessions' = activeSessions
          /\ matching' = matching]_vars

\* C14: requestMatch by c takes one of two branches. Queue non-empty: the
\* head is removed, one match of c with the head starts, c is not enqueued
\* and nothing is emitted. Queue empty: c is appended, no match starts and
\* one waiting event is emitted, to c.
C14_RequestMatchBranches ==
  [][\A c \in Conns :
       (last'.op = "requestMatch" /\ last'.id = c)
       => /\ activeSessions' = activeSessions
          /\ IF waitingUsers # <<>>
             THEN /\ waitingUsers' = Tail(waitingUsers)
                  /\ BagCardinality(matching') = BagCardinality(matching) + 1
                  /\ \E m \in BagToSet(matching') :
                       /\ CopiesIn(m, matching') = CopiesIn(m, matching) + 1
                       /\ m.user1.socketId = c
                       /\ m.user2.socketId = Head(waitingUsers).socketId
                  /\ emitted' = <<>>
             ELSE /\ Len(waitingUsers') = 1
                  /\ waitingUsers'[1].socketId = c
                  /\ matching' = matching
                  /\ Len(emitted') = 1
                  /\ emitted'[1].to = c
                  /\ emitted'[1].event = "waiting"]_vars

\* C14 witness: a requestMatch on an empty queue has just enqueued its
\* sender while a match started by an earlier requestMatch is in flight.
C14_Witness ==
  /\ last.op = "requestMatch"
  /\ Len(waitingUsers) = 1
  /\ waitingUsers[1].socketId = last.id
  /\ emitted = <<Emit(last.id, "waiting", Null)>>
  /\ matching # EmptyBag

\* C15: a session is registered, and matched is emitted, only by the step
\* at which the room and the first token are there and the second token
\* arrives; that step registers one session of the two users of the match
\* and emits one matched event per user, in the order user1, user2, with the
\* token issued for that user and the room id of the match.
C15_MatchedAfterAllCalls ==
  [][(\/ Len(activeSessions') > Len(activeSessions)
      \/ \E k \in 1..Len(emitted') : emitted'[k].event = "matched")
     => \E m \in BagToSet(matching) :
          /\ m.pc = "token2"
          /\ m.sessionId \in SessionIds
          /\ m.token1 \in Tokens
          /\ matching' = matching (-) SetToBag({m})
          /\ Len(activeSessions') = Len(activeSessions) + 1
          /\ SubSeq(activeSessions', 1, Len(activeSessions)) = activeSessions
          /\ LET session == activeSessions'[Len(activeSessions')]
             IN /\ session.sessionId = m.sessionId
                /\ Len(session.users) = 2
                /\ session.users[1].socketId = m.user1.socketId
                /\ session.users[2].socketId = m.user2.socketId
          /\ Len(emitted') = 2
          /\ \A k \in 1..2 :
               /\ emitted'[k].event = "matched"
               /\ emitted'[k].payload.sessionId = m.sessionId
               /\ emitted'[k].payload.token \in Tokens
          /\ emitted'[1].to = m.user1.socketId
          /\ emitted'[1].payload.token = m.token1
          /\ emitted'[2].to = m.user2.socketId
          /\ last'.op = "matched"]_vars

\* C15 witness: a match of two different connections has just succeeded
\* with two different tokens.
C15_Witness ==
  /\ last.op = "matched"
  /\ Len(emitted) = 2
  /\ emitted[1].to # emitted[2].to
  /\ emitted[1].payload.token # emitted[2].payload.token
  /\ emitted[1].payload.sessionId = emitted[2].payload.sessionId
  /\ HasUser(activeSessions[Len(activeSessions)], emitted[1].to)
  /\ HasUser(activeSessions[Len(activeSessions)], emitted[2].to)

\* C16: a requestMatch of a connection that is waiting or is a member of a
\* session is ignored: it neither enqueues the connection nor starts a
\* match.
C16_RequestMatchGuard ==
  [][\A c \in Conns :
       (last'.op = "requestMatch" /\ last'.id = c
          /\ (Waiting(waitingUsers, c) \/ SessionsOf(activeSessions, c) # {}))
       => /\ waitingUsers' = waitingUsers
          /\ matching' = matching]_vars

\* C17: a relay event of a sender that is a member of no session is
\* dropped: nothing is emitted, and the waiting queue, activeSessions and
\* the matches in flight stay as they are.
C17_StrayEventDropped ==
  [][\A c \in Conns :
       (last'.op \in RelayOps /\ last'.id = c
          /\ SessionsOf(activeSessions, c) = {})
       => /\ emitted' = <<>>
          /\ waitingUsers' = waitingUsers
          /\ activeSessions' = activeSessions
          /\ matching' = matching]_vars

\* C17 witness: a connection in no session has just sent a relay event
\* while a session of two other connections is active, and nothing was
\* emitted.
C17_Witness ==
  /\ last.op \in RelayOps
  /\ last.id \in connected
  /\ SessionsOf(activeSessions, last.id) = {}
  /\ activeSessions # <<>>
  /\ emitted = <<>>

\* C18: leaveSession cleans up as disconnect does: after leaveSession by c,
\* c is in the waiting queue no more.
C18_LeaveCleansQueue ==
  [][\A c \in Conns :
       (last'.op = "leaveSession" /\ last'.id = c)
       => ~Waiting(waitingUsers', c)]_vars

\* a match of user1 and user2 is in flight
Pending(user1, user2) ==
  \E m \in BagToSet(matching) :
    m.user1.socketId = user1 /\ m.user2.socketId = user2

\* the last step concluded a match of user1 and user2 with the event for both
Concluded(user1, user2, event) ==
  /\ Len(emitted) = 2
  /\ emitted[1].event = event /\ emitted[1].to = user1
  /\ emitted[2].event = event /\ emitted[2].to = user2

\* one pair of two different connections and one pair of a connection with
\* itself: the connections are interchangeable, so what holds of these two
\* pairs holds of every pair
Pairs == {<<"a", "b">>, <<"a", "a">>}

\* C19: every match in flight concludes, given that every collaborator call
\* resolves or rejects. A match ends only by a step that tells both users
\* matched and registers the session, or tells both users error and
\* registers nothing; the waiting queue is not touched by it.
C19_MatchConcludes ==
  /\ [][BagCardinality(matching') < BagCardinality(matching)
        => /\ waitingUsers' = waitingUsers
           /\ \E m \in BagToSet(matching) :
                /\ matching' = matching (-) SetToBag({m})
                /\ \/ /\ Concluded(m.user1.socketId, m.user2.socketId, "matched")'
                      /\ Len(activeSessions') = Len(activeSessions) + 1
                   \/ /\ Concluded(m.user1.socketId, m.user2.socketId, "error")'
                      /\ activeSessions' = activeSessions]_vars
  /\ \A p \in Pairs :
       Pending(p[1], p[2])
         ~> (\/ Concluded(p[1], p[2], "matched")
             \/ Concluded(p[1], p[2], "error"))

\* C19 witness: a match of two different connections has concluded with
\* matched for both while another match is still in flight.
C19_Witness ==
  /\ \E user1, user2 \in Conns :
       user1 # user2 /\ Concluded(user1, user2, "matched")
  /\ last.op = "matched"
  /\ matching # EmptyBag

\* the step relayed nothing, or relayed the one event with its payload as
\* it was sent, to a peer of the sender
Relayed(c, event, payload) ==
  \/ emitted' = <<>>
  \/ /\ Len(emitted') = 1
     /\ emitted'[1].event = event
     /\ emitted'[1].payload = payload
     /\ emitted'[1].to \in Peers(activeSessions, c)

\* C20: relaying keeps the order of a sender's events. A relay event is
\* emitted by the handler of that event and by no later step, once, with
\* the payload as sent (the chat text, the typing flag); handlers run one
\* after the other, so the stream of the receiver has the events in the
\* order they were sent.
C20_RelayInOrder ==
  [][/\ (\E k \in 1..Len(emitted') : emitted'[k].event \in RelayEvents)
          => last'.op \in RelayOps
     /\ \A c \in Conns :
          /\ \A text \in Texts :
               (last'.op = "chat-message" /\ last'.id = c /\ ChatMessage(c, text))
               => Relayed(c, "chat-message", [text |-> text])
          /\ \A isTyping \in BOOLEAN :
               (last'.op = "typing" /\ last'.id = c /\ Typing(c, isTyping))
               => Relayed(c, "typing", isTyping)
          /\ (last'.op = "screen-share-started" /\ last'.id = c)
               => Relayed(c, "peer-screen-share-started", Null)
          /\ (last'.op = "screen-share-stopped" /\ last'.id = c)
               => Relayed(c, "peer-screen-share-stopped", Null)]_vars

\* C20 witness: a typing event with the flag FALSE has just been relayed to
\* the peer of its sender.
C20_Witness ==
  /\ last.op = "typing"
  /\ Len(emitted) = 1
  /\ emitted[1].event = "typing"
  /\ emitted[1].payload = FALSE
  /\ emitted[1].to \in Peers(activeSessions, last.id)

\* n is the suspended call m one await later: the same two users, and what
\* m had obtained is kept
SameAttempt(m, n) ==
  /\ n.user1 = m.user1
  /\ n.user2 = m.user2
  /\ m.sessionId # Null => n.sessionId = m.sessionId
  /\ m.token1 # Null => n.token1 = m.token1

\* the step registers the session of the suspended call m and delivers to
\* its two users what m obtained
Registers(m) ==
  /\ matching' = matching (-) SetToBag({m})
  /\ Len(activeSessions') = Len(activeSessions) + 1
  /\ SubSeq(activeSessions', 1, Len(activeSessions)) = activeSessions
  /\ LET session == activeSessions'[Len(activeSessions')]
     IN /\ session.sessionId = m.sessionId
        /\ Len(session.users) = 2
        /\ session.users[1].socketId = m.user1.socketId
        /\ session.users[2].socketId = m.user2.socketId
  /\ Len(emitted') = 2
  /\ emitted'[1].event = "matched" /\ emitted'[2].event = "matched"
  /\ emitted'[1].to = m.user1.socketId
  /\ emitted'[1].payload.token = m.token1
  /\ emitted'[1].payload.sessionId = m.sessionId
  /\ emitted'[2].to = m.user2.socketId
  /\ emitted'[2].payload.token \in Tokens
  /\ emitted'[2].payload.sessionId = m.sessionId

\* C21: the pair of a match is fixed when requestMatch dequeues the waiter.
\* Whatever the interleaving of the suspended calls, a step changes at most
\* one of them and leaves its two users and what it obtained as they were;
\* a session is registered only by the step that ends a suspended call, it
\* holds the two users of that call, and the matched events go to these two
\* users with the session id and the token that call obtained.
C21_PairFixedAtDequeue ==
  [][/\ \/ matching' = matching
        \/ \E m \in BagToSet(matching) : matching' = matching (-) SetToBag({m})
        \/ \E m \in BagToSet(matching), n \in BagToSet(matching') :
             /\ matching' = (matching (-) SetToBag({m})) (+) SetToBag({n})
             /\ SameAttempt(m, n)
        \/ /\ last'.op = "requestMatch"
           /\ \E n \in BagToSet(matching') :
                matching' = matching (+) SetToBag({n})
     /\ (\/ Len(activeSessions') > Len(activeSessions)
         \/ \E k \in 1..Len(emitted') : emitted'[k].event = "matched")
          => \E m \in BagToSet(matching) : m.pc = "token2" /\ Registers(m)]_vars

\* C21 witness: a session has just been registered for one suspended call
\* while another call of another requester, holding another room id and
\* another token, is still suspended.
C21_Witness ==
  /\ last.op = "matched"
  /\ Len(emitted) = 2
  /\ \E o \in BagToSet(matching) :
       /\ o.token1 # Null
       /\ o.token1 # emitted[1].payload.token
       /\ o.sessionId # emitted[1].payload.sessionId
       /\ o.user1.socketId # emitted[1].to

\* C22: the relay handlers change nothing the server keeps. A chat-message,
\* typing, screen-share-started or screen-share-stopped handler leaves the
\* waiting queue, activeSessions and the suspended matches as they were;
\* cancelMatch leaves activeSessions as it was and emits no event.
C22_RelayFrame ==
  [][/\ last'.op \in RelayOps
          => /\ waitingUsers' = waitingUsers
             /\ activeSessions' = activeSessions
             /\ matching' = matching
     /\ last'.op = "cancelMatch"
          => /\ activeSessions' = activeSessions
             /\ emitted' = <<>>]_vars

\* C22 witness: cancelMatch has just taken out of the queue a sender that
\* is a member of a session with a peer, and the session is still there.
C22_Witness ==
  /\ last.op = "cancelMatch"
  /\ last.index = 1
  /\ SessionsOf(activeSessions, last.id) # {}
  /\ Peers(activeSessions, last.id) # {}
  /\ emitted = <<>>

====
